---------------------------- MODULE Spec2Model ----------------------------
(***************************************************************************)
(* Braille Cell Ignorer: the mapping between logical and physical braille  *)
(* cells (cellMapping.py) and the configuration it reads (config.py).      *)
(*                                                                         *)
(* Python lists are sequences; a physical or logical index i (0-based) is  *)
(* element i + 1 of the sequence.  A value of type int | None is a record: *)
(* None, or Some(n) for the value n.                                       *)
(***************************************************************************)
EXTENDS Integers, Sequences, FiniteSets, TLC

\* ------------------------------------------------------------ bounds
MaxCells == 3
MaxPos == 4
MaxLen == 4
MaxRows == 2
DevCells == 2

None == [isNone |-> TRUE]
Some(n) == [isNone |-> FALSE, val |-> n]

Max(a, b) == IF a >= b THEN a ELSE b

BoundedSeq(S, n) == UNION {[1..k -> S] : k \in 0..n}

\* Cell values a caller writes: non-blank dot patterns, so that a blank (0)
\* in an output is recognisably the filler.
CellValues == {1, 2}

Min(a, b) == IF a <= b THEN a ELSE b

\* The value of a local variable, computed once: the element of a one-element set.
TheOnly(S) == CHOOSE x \in S : TRUE

VARIABLES
    call,                          \* the last direct call of a method and its result
    conf,                          \* config.conf["brailleCellIgnorer"]["profiles"]
    display,                       \* braille.handler.display
    displayDimensionsCache,        \* braille.handler._displayDimensions
    filterRegistered,              \* the handler is in braille.filter_displayDimensions
    hostWriteCells,                \* braille.BrailleHandler._writeCells
    hostRoutingIndex,              \* braille.BrailleDisplayGesture.routingIndex
    hostRouteTo,                   \* braille.BrailleHandler.routeTo
    ignoredCells,                  \* manager._ignoredCells
    isRegistered,                  \* manager._isRegistered
    originalWriteCells,            \* manager._originalWriteCells
    originalRoutingIndexProperty,  \* manager._originalRoutingIndexProperty
    originalRouteTo,               \* manager._originalRouteTo
    cellManager,                   \* settingsPanel._cellManager is set
    lastEvent,                     \* what the last operation did (observation)
    staleConf                      \* conf changed and no refreshIgnoredCells has run
                                   \* since, registered and with a display (observation)

hostVars == <<displayDimensionsCache, filterRegistered, hostWriteCells,
              hostRoutingIndex, hostRouteTo>>
managerVars == <<ignoredCells, isRegistered, originalWriteCells,
                 originalRoutingIndexProperty, originalRouteTo>>
sysVars == <<conf, display, hostVars, managerVars, cellManager, lastEvent, staleConf>>
vars == <<call, sysVars>>

\* ------------------------------------------------ cellMapping.py: pure parts

\* The loop of _remapCellsToPhysical (for physicalIndex in range(physicalCellCount)).
RECURSIVE remapLoop(_, _, _, _, _, _)
remapLoop(logicalCells, physicalCellCount, ignored, physicalIndex, logicalIndex, physicalCells) ==
    IF physicalIndex >= physicalCellCount
    THEN physicalCells
    ELSE IF physicalIndex \in ignored
         THEN remapLoop(logicalCells, physicalCellCount, ignored,
                        physicalIndex + 1, logicalIndex, Append(physicalCells, 0))
         ELSE remapLoop(logicalCells, physicalCellCount, ignored,
                        physicalIndex + 1, logicalIndex + 1,
                        Append(physicalCells,
                               IF logicalIndex < Len(logicalCells)
                               THEN logicalCells[logicalIndex + 1]
                               ELSE 0))

\* Variants of the loop with one slip each:
\*   "skip"    nothing is appended at an ignored position;
\*   "noBlank" an ignored position is given the next logical cell;
\*   "advance" the logical index advances at ignored positions too.
RECURSIVE remapLoopSlip(_, _, _, _, _, _, _)
remapLoopSlip(slip, logicalCells, physicalCellCount, ignored, physicalIndex, logicalIndex, physicalCells) ==
    IF physicalIndex >= physicalCellCount
    THEN physicalCells
    ELSE LET next == IF logicalIndex < Len(logicalCells)
                     THEN logicalCells[logicalIndex + 1]
                     ELSE 0
         IN  IF physicalIndex \in ignored /\ slip # "noBlank"
             THEN remapLoopSlip(slip, logicalCells, physicalCellCount, ignored,
                                physicalIndex + 1,
                                IF slip = "advance" THEN logicalIndex + 1 ELSE logicalIndex,
                                IF slip = "skip" THEN physicalCells
                                                 ELSE Append(physicalCells, 0))
             ELSE remapLoopSlip(slip, logicalCells, physicalCellCount, ignored,
                                physicalIndex + 1, logicalIndex + 1,
                                Append(physicalCells, next))

remapSkipsIgnored(logicalCells, physicalCellCount, ignored) ==
    remapLoopSlip("skip", logicalCells, physicalCellCount, ignored, 0, 0, <<>>)

remapFillsIgnored(logicalCells, physicalCellCount, ignored) ==
    remapLoopSlip("noBlank", logicalCells, physicalCellCount, ignored, 0, 0, <<>>)

remapAdvancesOnIgnored(logicalCells, physicalCellCount, ignored) ==
    remapLoopSlip("advance", logicalCells, physicalCellCount, ignored, 0, 0, <<>>)

\* CellMappingManager._remapCellsToPhysical
remapCellsToPhysical(logicalCells, physicalCellCount, ignored) ==
    remapLoop(logicalCells, physicalCellCount, ignored, 0, 0, <<>>)

\* sum(1 for cell in cells if cell < bound), one element at a time.
RECURSIVE sumBelow(_, _)
sumBelow(cells, bound) ==
    IF cells = {}
    THEN 0
    ELSE LET cell == CHOOSE c \in cells : TRUE
         IN  (IF cell < bound THEN 1 ELSE 0) + sumBelow(cells \ {cell}, bound)

\* Variants of _physicalToLogicalIndex with one slip each.
physicalToLogicalCountsAll(physicalIndex, ignored) ==
    IF physicalIndex \in ignored
    THEN None
    ELSE Some(physicalIndex - Cardinality(ignored))

physicalToLogicalNoNone(physicalIndex, ignored) ==
    Some(physicalIndex - sumBelow(ignored, physicalIndex))

\* CellMappingManager._physicalToLogicalIndex, ignoredCells = self._ignoredCells
physicalToLogicalIndex(physicalIndex, ignored) ==
    IF physicalIndex \in ignored
    THEN None
    ELSE Some(physicalIndex - sumBelow(ignored, physicalIndex))

\* sum(1 for cell in cells if 0 <= cell < numCols), one element at a time.
RECURSIVE sumWithin(_, _)
sumWithin(cells, numCols) ==
    IF cells = {}
    THEN 0
    ELSE LET cell == CHOOSE c \in cells : TRUE
         IN  (IF 0 <= cell /\ cell < numCols THEN 1 ELSE 0)
             + sumWithin(cells \ {cell}, numCols)

DisplayDimensions(rows, cols) == [numRows |-> rows, numCols |-> cols]

\* Variants of the dimension computation with one slip each.
adjustCountsAll(displayDimensions, ignored) ==
    IF ignored = {} \/ displayDimensions.numRows > 1
    THEN displayDimensions
    ELSE DisplayDimensions(1, Max(0, displayDimensions.numCols - Cardinality(ignored)))

adjustAnyRows(displayDimensions, ignored) ==
    IF ignored = {}
    THEN displayDimensions
    ELSE DisplayDimensions(1, Max(0, displayDimensions.numCols
                                     - sumWithin(ignored, displayDimensions.numCols)))

\* CellMappingManager._filterDisplayDimensions from the test of the snapshot
\* on: the dimensions returned for the snapshot ignored.
adjustDimensions(displayDimensions, ignored) ==
    IF ignored = {} \/ displayDimensions.numRows > 1
    THEN displayDimensions
    ELSE DisplayDimensions(1, Max(0, displayDimensions.numCols
                                     - sumWithin(ignored, displayDimensions.numCols)))

NoCall == [op |-> "none"]

\* ------------------------------------------------ config.py

\* The displays the handler may hold.  NoDisplay is handler.display = None.
NoDisplay == [present |-> FALSE, name |-> "", numRows |-> 0, numCols |-> 0, numCells |-> 0]
NoBraille == [present |-> TRUE, name |-> "noBraille", numRows |-> 1, numCols |-> 0, numCells |-> 0]
DevA      == [present |-> TRUE, name |-> "devA", numRows |-> 1, numCols |-> DevCells,
              numCells |-> DevCells]
DevAMulti == [present |-> TRUE, name |-> "devA", numRows |-> 2, numCols |-> DevCells,
              numCells |-> 2 * DevCells]
DevB      == [present |-> TRUE, name |-> "devB", numRows |-> 1, numCols |-> DevCells,
              numCells |-> DevCells]
Displays == {NoDisplay, NoBraille, DevA, DevAMulti, DevB}

\* IgnoredCellsProfile.key, f"{driverName}:{numCells}", as the pair it is split into.
profileKey(driverName, numCells) == <<driverName, numCells>>

\* The keys a stored file may hold: those of the two displays named devA.
\* Nothing is stored for DevB, a display of another name with as many cells
\* as DevA.
ProfileKeys == {profileKey(DevA.name, DevA.numCells),
                profileKey(DevAMulti.name, DevAMulti.numCells)}

\* The stored 1-based lists a key may hold (a list is sorted(set(cells)), so
\* a set; the empty set is a key that is not stored).  A stored file may hold
\* values below 1 or beyond the cell count.
StoredLists(key) ==
    IF key = profileKey(DevA.name, DevA.numCells)
    THEN SUBSET (0..(DevCells + 1))
    ELSE SUBSET {1}

\* IgnoredCellsProfile.getIgnoredCellsZeroBased
zeroBasedKeepsAll(cells) == {cell - 1 : cell \in cells}
zeroBasedNoShift(cells) == {c \in cells : c > 0}
getIgnoredCellsZeroBased(cells) == {cell - 1 : cell \in {c \in cells : c > 0}}

\* loadProfiles: the stored profiles by key.
loadProfiles(profiles) ==
    [key \in {k \in DOMAIN profiles : profiles[k] # {}} |->
        [driverName |-> key[1], numCells |-> key[2], ignoredCells |-> profiles[key]]]

\* getActiveProfile
getActiveProfileByName(disp, profiles) ==
    IF ~disp.present \/ disp.name = "noBraille"
    THEN None
    ELSE LET loaded == loadProfiles(profiles)
             sameName == {k \in DOMAIN loaded : k[1] = disp.name}
         IN  IF sameName # {}
             THEN Some(loaded[CHOOSE k \in sameName : TRUE])
             ELSE None

getActiveProfile(disp, profiles) ==
    IF ~disp.present \/ disp.name = "noBraille"
    THEN None
    ELSE LET loaded == loadProfiles(profiles)
             specificKey == profileKey(disp.name, disp.numCells)
         IN  IF specificKey \in DOMAIN loaded THEN Some(loaded[specificKey]) ELSE None

\* getIgnoredCellsForDisplay
getIgnoredCellsForDisplay(disp, profiles) ==
    LET profile == getActiveProfile(disp, profiles)
    IN  IF profile # None
        THEN getIgnoredCellsZeroBased(profile.val.ignoredCells)
        ELSE {}

\* ------------------------------------------------ cellMapping.py: the hooks

\* CellMappingManager._filterDisplayDimensions: the new snapshot and the
\* dimensions returned.
filterDisplayDimensions(displayDimensions, disp, profiles) ==
    LET ignoredList == getIgnoredCellsForDisplay(disp, profiles)
    IN  [ignoredCells |-> ignoredList,
         result |-> adjustDimensions(displayDimensions, ignoredList)]

\* _refreshDisplay, "braille.handler._displayDimensions = None".
keptCache(cache) == cache
invalidatedCache(cache) == None

\* The host's handler.displayDimensions: the cached value, or the raw
\* dimensions of the display passed through the registered filter and cached.
\* queries counts the computations of the dimensions, filterRuns the runs of
\* _filterDisplayDimensions among them.
getDisplayDimensions(cache, ignored, filterOn, profiles) ==
    IF cache # None
    THEN [cache |-> cache, ignoredCells |-> ignored, queries |-> 0, filterRuns |-> 0]
    ELSE LET raw == DisplayDimensions(display.numRows, display.numCols)
         IN  IF filterOn
             THEN LET f == filterDisplayDimensions(raw, display, profiles)
                  IN  [cache |-> Some(f.result), ignoredCells |-> f.ignoredCells,
                       queries |-> 1, filterRuns |-> 1]
             ELSE [cache |-> Some(raw), ignoredCells |-> ignored,
                   queries |-> 1, filterRuns |-> 0]

Zeros(n) == [i \in 1..n |-> 0]

\* row = oldCells[start:end]
Slice(cells, start, end) ==
    IF start >= Min(end, Len(cells)) THEN <<>> ELSE SubSeq(cells, start + 1, Min(end, Len(cells)))

\* The host's handler._normalizeCellArraySize: pad to the old size, then copy
\* row by row into the new shape, cutting or padding each row.
RECURSIVE normalizeRows(_, _, _, _, _, _)
normalizeRows(oldCells, oldNumCols, oldNumRows, newNumCols, newNumRows, rowIndex) ==
    IF rowIndex >= newNumRows
    THEN <<>>
    ELSE LET rowLen == Min(oldNumCols, newNumCols)
             row == IF rowIndex < oldNumRows
                    THEN Slice(oldCells, rowIndex * oldNumCols, rowIndex * oldNumCols + rowLen)
                         \o Zeros(newNumCols - rowLen)
                    ELSE Zeros(newNumCols)
         IN  row \o normalizeRows(oldCells, oldNumCols, oldNumRows, newNumCols, newNumRows,
                                  rowIndex + 1)

normalizeCellArraySize(oldCells, oldCellCount, oldNumRows, newCellCount, newNumRows) ==
    LET padded == oldCells \o Zeros(oldCellCount - Len(oldCells))
    IN  normalizeRows(padded, oldCellCount \div oldNumRows, oldNumRows,
                      newCellCount \div newNumRows, newNumRows, 0)

\* logicalCellCount = handler.displaySize, the count pre_writeCells is told.
notifiedCountPhysical(dims, disp) == disp.numCells
notifiedCount(dims, disp) == dims.numRows * dims.numCols

\* patchedWriteCells: what one call does, as a record: the pre_writeCells
\* notifications, the snapshot read (None when the call returns before reading
\* it), whether the cells were remapped, the steps in the order taken, and
\* the cells handed to the display (None when nothing is transmitted).
\* anyRows is the slip of remapping whatever the number of rows.
patchedWriteCellsWith(anyRows, cells, dims, ignored) ==
    LET logicalCellCount == dims.numRows * dims.numCols
        physicalCellCount == display.numCells
        notification == [cells |-> cells, currentCellCount |-> notifiedCount(dims, display)]
    IN  IF ~display.present \/ display.numCells = 0
        THEN [hooked |-> TRUE, notifications |-> <<notification>>,
              usedIgnored |-> None, remapped |-> FALSE,
              steps |-> <<"notify">>, transmitted |-> None]
        ELSE IF ignored # {} /\ (anyRows \/ dims.numRows = 1)
        THEN [hooked |-> TRUE, notifications |-> <<notification>>,
              usedIgnored |-> Some(ignored), remapped |-> TRUE,
              steps |-> <<"notify", "normalize", "remap", "display">>,
              transmitted |-> Some(remapCellsToPhysical(
                  normalizeCellArraySize(cells, logicalCellCount, dims.numRows,
                                         logicalCellCount, dims.numRows),
                  physicalCellCount, ignored))]
        ELSE [hooked |-> TRUE, notifications |-> <<notification>>,
              usedIgnored |-> Some(ignored), remapped |-> FALSE,
              steps |-> <<"notify", "normalize", "display">>,
              transmitted |-> Some(normalizeCellArraySize(
                  cells, logicalCellCount, dims.numRows,
                  physicalCellCount, display.numRows))]

patchedWriteCellsAnyRows(cells, dims, ignored) ==
    patchedWriteCellsWith(TRUE, cells, dims, ignored)

patchedWriteCells(cells, dims, ignored) ==
    patchedWriteCellsWith(FALSE, cells, dims, ignored)

\* The host's own BrailleHandler._writeCells, the method saved in
\* _originalWriteCells: the same steps without the snapshot and the remapping.
hostOriginalWriteCells(cells, dims) ==
    LET logicalCellCount == dims.numRows * dims.numCols
        notification == [cells |-> cells, currentCellCount |-> logicalCellCount]
    IN  IF ~display.present \/ display.numCells = 0
        THEN [hooked |-> FALSE, notifications |-> <<notification>>,
              usedIgnored |-> None, remapped |-> FALSE,
              steps |-> <<"notify">>, transmitted |-> None]
        ELSE [hooked |-> FALSE, notifications |-> <<notification>>,
              usedIgnored |-> None, remapped |-> FALSE,
              steps |-> <<"notify", "normalize", "display">>,
              transmitted |-> Some(normalizeCellArraySize(
                  cells, logicalCellCount, dims.numRows,
                  display.numCells, display.numRows))]

\* handler._writeCells(cells) as the host calls it: handler.displaySize reads
\* the dimensions first, then the installed method runs.  given is the
\* caller's argument and dims the dimensions the method saw.
installedWriteCells(installed, cells, dims, ignored) ==
    IF installed = "patched"
    THEN patchedWriteCells(cells, dims, ignored)
    ELSE hostOriginalWriteCells(cells, dims)

writeCellsAfterQuery(installed, cells, d) ==
    [cache |-> d.cache, ignoredCells |-> d.ignoredCells,
     queries |-> d.queries, filterRuns |-> d.filterRuns,
     given |-> cells, dims |-> d.cache.val,
     write |-> Some(installedWriteCells(installed, cells, d.cache.val, d.ignoredCells))]

writeCells(installed, cells, cache, ignored, filterOn, profiles) ==
    TheOnly({writeCellsAfterQuery(installed, cells, d) :
                d \in {getDisplayDimensions(cache, ignored, filterOn, profiles)}})

\* The cells the host hands to _writeCells: a window of n cells.
HostCells(n) == [i \in 1..n |-> IF i % 2 = 1 THEN 1 ELSE 2]

\* CellMappingManager._refreshDisplay.  The host's handler.update() writes its
\* window, which has handler.displaySize cells.
\* cycle lists what the call made the host do, in order.
Times(n, step) == [i \in 1..n |-> step]

\* handler.update() after the query d: the host writes its window, as many
\* cells as the logical display has.
refreshAfterUpdate(d, w) ==
    [cache |-> w.cache, ignoredCells |-> w.ignoredCells, refreshed |-> TRUE,
     write |-> w.write, given |-> w.given, dims |-> Some(w.dims),
     queries |-> d.queries + w.queries,
     filterRuns |-> d.filterRuns + w.filterRuns,
     cycle |-> <<"invalidate">> \o Times(d.queries, "query") \o <<"update">>
               \o Times(w.queries, "query")]

refreshAfterQuery(d, filterOn, installed, profiles) ==
    TheOnly({refreshAfterUpdate(d, w) :
                w \in {writeCells(installed,
                                  HostCells(d.cache.val.numRows * d.cache.val.numCols),
                                  d.cache, d.ignoredCells, filterOn, profiles)}})

refreshDisplayRecomputes(cache, ignored, filterOn, installed, profiles) ==
    [cache |-> cache, ignoredCells |-> getIgnoredCellsForDisplay(display, profiles),
     refreshed |-> FALSE, write |-> None, given |-> <<>>, dims |-> None,
     queries |-> 0, filterRuns |-> 0, cycle |-> <<>>]

refreshDisplay(cache, ignored, filterOn, installed, profiles) ==
    IF ~display.present
    THEN [cache |-> cache, ignoredCells |-> ignored, refreshed |-> FALSE, write |-> None,
          given |-> <<>>, dims |-> None, queries |-> 0, filterRuns |-> 0, cycle |-> <<>>]
    ELSE TheOnly({refreshAfterQuery(d, filterOn, installed, profiles) :
                     d \in {getDisplayDimensions(invalidatedCache(cache), ignored,
                                                 filterOn, profiles)}})

\* getRoutingIndex of the patched routingIndex property.
getRoutingIndex(rawIndex, ignored) ==
    IF rawIndex = None THEN None ELSE physicalToLogicalIndex(rawIndex.val, ignored)

\* ------------------------------------------------ the plugin and its host

Init ==
    /\ call = NoCall
    /\ conf \in [ProfileKeys -> SUBSET (0..(DevCells + 1))]
    /\ \A key \in ProfileKeys : conf[key] \in StoredLists(key)
    /\ display \in Displays
    /\ displayDimensionsCache = None
    /\ filterRegistered = FALSE
    /\ hostWriteCells = "original"
    /\ hostRoutingIndex \in {None, Some("original")}
    /\ hostRouteTo = "original"
    /\ ignoredCells = {}
    /\ isRegistered = FALSE
    /\ originalWriteCells = None
    /\ originalRoutingIndexProperty = None
    /\ originalRouteTo = None
    /\ cellManager = FALSE
    /\ lastEvent = [op |-> "init"]
    /\ staleConf = TRUE

\* What the last operation did, for the properties to read: lastEvent after
\* an operation that refreshed (r is the result of refreshDisplay), that
\* returned before doing anything, or that only wrote.
refreshedEvent(op, r, before) ==
    [op |-> op, returnedEarly |-> FALSE, refreshed |-> r.refreshed, write |-> r.write,
     given |-> r.given, dims |-> r.dims, queries |-> r.queries,
     filterRuns |-> r.filterRuns, cycle |-> r.cycle, snapshotBefore |-> before]

notRefreshedEvent(op, early, before) ==
    [op |-> op, returnedEarly |-> early, refreshed |-> FALSE, write |-> None,
     given |-> <<>>, dims |-> None, queries |-> 0, filterRuns |-> 0,
     cycle |-> <<>>, snapshotBefore |-> before]

returnedEarlyEvent(op, before) == notRefreshedEvent(op, TRUE, before)

savedEvent(event, changed) ==
    [f \in DOMAIN event \cup {"confChanged"} |->
        IF f = "confChanged" THEN changed ELSE event[f]]

writeEvent(w, before) ==
    [op |-> "writeCells", returnedEarly |-> FALSE, refreshed |-> FALSE,
     write |-> w.write, given |-> w.given, dims |-> Some(w.dims),
     queries |-> w.queries, filterRuns |-> w.filterRuns,
     cycle |-> <<>>, snapshotBefore |-> before]

\* CellMappingManager.registerHandlers
registerHandlers ==
    IF isRegistered
    THEN /\ lastEvent' = returnedEarlyEvent("registerHandlers", ignoredCells)
         /\ UNCHANGED <<call, conf, display, hostVars, managerVars, cellManager, staleConf>>
    ELSE \E r \in {refreshDisplay(displayDimensionsCache, ignoredCells,
                                    TRUE, "patched", conf)} :
             /\ filterRegistered' = TRUE
             /\ originalWriteCells' = Some(hostWriteCells)
             /\ hostWriteCells' = "patched"
             /\ originalRoutingIndexProperty' = hostRoutingIndex
             /\ hostRoutingIndex' = Some("patched")
             /\ originalRouteTo' = Some(hostRouteTo)
             /\ hostRouteTo' = "patched"
             /\ isRegistered' = TRUE
             /\ displayDimensionsCache' = r.cache
             /\ ignoredCells' = r.ignoredCells
             /\ lastEvent' = refreshedEvent("registerHandlers", r, ignoredCells)
             /\ UNCHANGED <<call, conf, display, cellManager, staleConf>>

\* _unpatchWriteCells, _unpatchRoutingIndex, _unpatchRouteTo: the host's value
\* after the call, and the saved value after it.
restored(current, saved) == IF saved # None THEN saved ELSE Some(current)

\* CellMappingManager.unregisterHandlers
unregisterHandlers ==
    IF ~isRegistered
    THEN /\ lastEvent' = returnedEarlyEvent("unregisterHandlers", ignoredCells)
         /\ UNCHANGED <<call, conf, display, hostVars, managerVars, cellManager, staleConf>>
    ELSE LET installed == restored(hostWriteCells, originalWriteCells).val
         IN  \E r \in {refreshDisplay(displayDimensionsCache, ignoredCells,
                                    FALSE, installed, conf)} :
             /\ filterRegistered' = FALSE
             /\ hostWriteCells' = installed
             /\ originalWriteCells' = None
             /\ hostRoutingIndex' = IF originalRoutingIndexProperty # None
                                    THEN originalRoutingIndexProperty
                                    ELSE hostRoutingIndex
             /\ originalRoutingIndexProperty' = None
             /\ hostRouteTo' = restored(hostRouteTo, originalRouteTo).val
             /\ originalRouteTo' = None
             /\ isRegistered' = FALSE
             /\ displayDimensionsCache' = r.cache
             /\ ignoredCells' = r.ignoredCells
             /\ lastEvent' = refreshedEvent("unregisterHandlers", r, ignoredCells)
             /\ UNCHANGED <<call, conf, display, cellManager, staleConf>>

\* CellMappingManager.refreshIgnoredCells
refreshIgnoredCells ==
    \E r \in {refreshDisplay(displayDimensionsCache, ignoredCells,
                               filterRegistered, hostWriteCells, conf)} :
        /\ displayDimensionsCache' = r.cache
        /\ ignoredCells' = r.ignoredCells
        /\ lastEvent' = refreshedEvent("refreshIgnoredCells", r, ignoredCells)
        /\ staleConf' = IF isRegistered /\ display.present THEN FALSE ELSE staleConf
        /\ UNCHANGED <<call, conf, display, filterRegistered, hostWriteCells, hostRoutingIndex,
                       hostRouteTo, isRegistered, originalWriteCells,
                       originalRoutingIndexProperty, originalRouteTo, cellManager>>

\* settingsPanel.register(cellManager) and settingsPanel.unregister()
settingsPanelRegister ==
    /\ cellManager' = TRUE
    /\ UNCHANGED <<call, conf, display, hostVars, managerVars, lastEvent, staleConf>>

settingsPanelUnregister ==
    /\ cellManager' = FALSE
    /\ UNCHANGED <<call, conf, display, hostVars, managerVars, lastEvent, staleConf>>

\* What the panel can hold when OK is pressed: the key of the connected
\* display (makeSettings), and for it the validated input of
\* _parseCellsFromInput (every value in 1..numCells).
currentDisplayKey ==
    IF display.present /\ display.name # "noBraille"
    THEN Some(profileKey(display.name, display.numCells))
    ELSE None

\* BrailleCellIgnorerSettingsPanel.onSave: the connected display's list is
\* replaced by the validated input (or left as it is), the keys in removed
\* (_onRemove, never the connected display's) are dropped, the profiles with a
\* non-empty list are saved, and the manager, if set, is told to refresh.
onSave ==
    \E edited \in {e \in BOOLEAN : e => /\ currentDisplayKey # None
                                        /\ currentDisplayKey.val \in ProfileKeys} :
    \E cells \in IF edited
                 THEN StoredLists(currentDisplayKey.val) \cap SUBSET (1..display.numCells)
                 ELSE {{}} :
    \E removed \in SUBSET (ProfileKeys \ {k \in ProfileKeys : Some(k) = currentDisplayKey}) :
        /\ conf' = [key \in ProfileKeys |->
                       IF edited /\ key = currentDisplayKey.val THEN cells
                       ELSE IF key \in removed THEN {}
                       ELSE conf[key]]
        /\ IF cellManager
           THEN \E r \in {refreshDisplay(displayDimensionsCache, ignoredCells,
                                           filterRegistered, hostWriteCells, conf')} :
                    /\ displayDimensionsCache' = r.cache
                    /\ ignoredCells' = r.ignoredCells
                    /\ lastEvent' = savedEvent(refreshedEvent("onSave", r, ignoredCells),
                                                conf' # conf)
                    /\ staleConf' = IF isRegistered /\ display.present
                                    THEN FALSE
                                    ELSE (staleConf \/ conf' # conf)
           ELSE /\ lastEvent' = savedEvent(notRefreshedEvent("onSave", FALSE, ignoredCells),
                                            conf' # conf)
                /\ staleConf' = (staleConf \/ conf' # conf)
                /\ UNCHANGED <<displayDimensionsCache, ignoredCells>>
        /\ UNCHANGED <<call, display, filterRegistered, hostWriteCells, hostRoutingIndex,
                       hostRouteTo, isRegistered, originalWriteCells,
                       originalRoutingIndexProperty, originalRouteTo, cellManager>>

\* The host reads handler.displayDimensions with nothing cached (the dimension
\* query; a read of the cached value changes nothing).
hostQueryDimensions ==
    \E d \in {getDisplayDimensions(displayDimensionsCache, ignoredCells,
                                    filterRegistered, conf)} :
        /\ displayDimensionsCache = None
        /\ displayDimensionsCache' = d.cache
        /\ ignoredCells' = d.ignoredCells
        /\ lastEvent' = [op |-> "displayDimensions", result |-> d.cache.val,
                         queries |-> d.queries, filterRuns |-> d.filterRuns,
                         snapshotBefore |-> ignoredCells]
        /\ UNCHANGED <<call, conf, display, filterRegistered, hostWriteCells, hostRoutingIndex,
                       hostRouteTo, isRegistered, originalWriteCells,
                       originalRoutingIndexProperty, originalRouteTo, cellManager, staleConf>>

\* The host calls handler._writeCells(cells) (the buffer write).
hostWrite ==
    \E n \in {0, DevCells + 1} :
    \E w \in {writeCells(hostWriteCells, HostCells(n), displayDimensionsCache,
                          ignoredCells, filterRegistered, conf)} :
        /\ displayDimensionsCache' = w.cache
        /\ ignoredCells' = w.ignoredCells
        /\ lastEvent' = writeEvent(w, ignoredCells)
        /\ UNCHANGED <<call, conf, display, filterRegistered, hostWriteCells, hostRoutingIndex,
                       hostRouteTo, isRegistered, originalWriteCells,
                       originalRoutingIndexProperty, originalRouteTo, cellManager, staleConf>>

\* patchedRouteTo(handler, windowPos): the arguments of the calls it makes to
\* the saved original routeTo, in order.
patchedRouteTo(windowPos) == IF windowPos = None THEN <<>> ELSE <<windowPos>>

\* A routing key of the display is pressed: a gesture with _routingIndex = raw
\* is made, the host reads gesture.routingIndex and calls
\* handler.routeTo(index).  originalRouteToCalls lists the arguments the
\* host's own routeTo was called with; given None it raises TypeError.
hostRoutingGesture ==
    \E raw \in 0..(2 * DevCells) :
    LET patchedIndex == hostRoutingIndex = Some("patched")
        index == IF patchedIndex THEN getRoutingIndex(Some(raw), ignoredCells) ELSE Some(raw)
        calls == IF hostRouteTo = "patched" THEN patchedRouteTo(index) ELSE <<index>>
    IN  /\ display.present
        /\ raw < display.numCells
        /\ lastEvent' = [op |-> "routing", rawIndex |-> raw, translated |-> patchedIndex,
                         usedIgnored |-> IF patchedIndex THEN Some(ignoredCells) ELSE None,
                         index |-> index,
                         guarded |-> hostRouteTo = "patched",
                         originalRouteToCalls |-> calls,
                         typeError |-> (\E k \in 1..Len(calls) : calls[k] = None),
                         snapshotBefore |-> ignoredCells]
        /\ UNCHANGED <<call, conf, display, hostVars, managerVars, cellManager, staleConf>>

Next ==
    \/ registerHandlers
    \/ unregisterHandlers
    \/ refreshIgnoredCells
    \/ settingsPanelRegister
    \/ settingsPanelUnregister
    \/ onSave
    \/ hostQueryDimensions
    \/ hostWrite
    \/ hostRoutingGesture

Spec == Init /\ [][Next]_vars

\* ------------------------------------------------ direct calls of the methods

\* A manager just constructed, with no display and nothing stored; one of the
\* methods below is called on it, once.
InitUnit ==
    /\ call = NoCall
    /\ conf = [key \in ProfileKeys |-> {}]
    /\ display = NoDisplay
    /\ displayDimensionsCache = None
    /\ filterRegistered = FALSE
    /\ hostWriteCells = "original"
    /\ hostRoutingIndex = None
    /\ hostRouteTo = "original"
    /\ ignoredCells = {}
    /\ isRegistered = FALSE
    /\ originalWriteCells = None
    /\ originalRoutingIndexProperty = None
    /\ originalRouteTo = None
    /\ cellManager = FALSE
    /\ lastEvent = [op |-> "init"]
    /\ staleConf = TRUE

\* manager._remapCellsToPhysical(logicalCells, physicalCellCount, ignoredCells)
CallRemap ==
    \E L \in BoundedSeq(CellValues, MaxLen), P \in 0..MaxCells, I \in SUBSET (0..MaxPos) :
        /\ call = NoCall
        /\ call' = [op |-> "remap", logicalCells |-> L, physicalCellCount |-> P,
                    ignoredCells |-> I, result |-> remapCellsToPhysical(L, P, I)]
        /\ UNCHANGED sysVars

\* manager._physicalToLogicalIndex(physicalIndex) with the snapshot I
CallPhysicalToLogical ==
    \E p \in 0..MaxPos, I \in SUBSET (0..MaxPos) :
        /\ call = NoCall
        /\ call' = [op |-> "toLogical", physicalIndex |-> p, ignoredCells |-> I,
                    result |-> physicalToLogicalIndex(p, I)]
        /\ UNCHANGED sysVars

\* manager._filterDisplayDimensions(displayDimensions) with the configured set I
CallFilter ==
    \E rows \in 0..MaxRows, cols \in 0..MaxCells, I \in SUBSET (0..MaxPos) :
        /\ call = NoCall
        /\ call' = [op |-> "filter", displayDimensions |-> DisplayDimensions(rows, cols),
                    ignoredCells |-> I,
                    result |-> adjustDimensions(DisplayDimensions(rows, cols), I)]
        /\ UNCHANGED sysVars

NextUnit == CallRemap \/ CallPhysicalToLogical \/ CallFilter

SpecUnit == InitUnit /\ [][NextUnit]_vars

\* ------------------------------------------------------------ claims

\* The non-ignored physical positions below P, and the rank of one of them.
NonIgnored(P, I) == {p \in 0..(P - 1) : p \notin I}
Rank(p, I) == Cardinality({q \in 0..(p - 1) : q \notin I})

\* C1: _remapCellsToPhysical returns exactly physicalCellCount cells, whatever
\* the length of the logical buffer and whatever the ignored set.
C1_ShapeInvariant ==
    call.op = "remap" => Len(call.result) = call.physicalCellCount

C1_Witness ==
    /\ call.op = "remap"
    /\ call.ignoredCells \cap (0..(call.physicalCellCount - 1)) # {}
    /\ Len(call.logicalCells) > call.physicalCellCount
    /\ Len(call.result) = call.physicalCellCount

\* C2: every ignored position below physicalCellCount holds the blank filler 0
\* in the output of _remapCellsToPhysical (callers' cells are never 0 here, so
\* the value is not one of theirs).
C2_IgnoredBlank ==
    call.op = "remap" =>
        \A i \in call.ignoredCells :
            i < call.physicalCellCount =>
                /\ i + 1 \in DOMAIN call.result
                /\ call.result[i + 1] = 0

C2_Witness ==
    /\ call.op = "remap"
    /\ Len(call.logicalCells) >= call.physicalCellCount
    /\ \E i \in call.ignoredCells :
           i + 1 < call.physicalCellCount /\ call.result[i + 1] = 0
                                          /\ call.result[i + 2] # 0

\* C3: the k-th non-ignored physical position holds logicalCells[k] when k is
\* below the length of the logical buffer and the blank filler 0 otherwise.
C3_InOrderPlacement ==
    call.op = "remap" =>
        /\ Len(call.result) >= call.physicalCellCount
        /\ \A p \in NonIgnored(call.physicalCellCount, call.ignoredCells) :
               LET k == Rank(p, call.ignoredCells)
               IN  call.result[p + 1] =
                       IF k < Len(call.logicalCells) THEN call.logicalCells[k + 1] ELSE 0

C3_Witness ==
    /\ call.op = "remap"
    /\ call.physicalCellCount = MaxCells
    /\ call.ignoredCells = {1}
    /\ call.logicalCells = <<1, 2, 2, 1>>
    /\ call.result = <<1, 0, 2>>

\* C4: _physicalToLogicalIndex returns None exactly for an ignored position and
\* otherwise the position minus the number of ignored positions below it.
C4_ReverseIndex ==
    call.op = "toLogical" =>
        /\ (call.result = None) <=> (call.physicalIndex \in call.ignoredCells)
        /\ call.physicalIndex \notin call.ignoredCells =>
               call.result = Some(call.physicalIndex
                   - Cardinality({i \in call.ignoredCells : i < call.physicalIndex}))

C4_Witness ==
    /\ call.op = "toLogical"
    /\ call.ignoredCells = {0, 2, 4}
    /\ call.physicalIndex = 3
    /\ call.result = Some(1)

\* C5: for an ignored set inside [0, P) and a logical buffer of length
\* P - |I|, every non-ignored position p shows logicalCells[toLogical(p)], and
\* toLogical maps the k-th non-ignored position to k (a bijection onto
\* 0..P-|I|-1).
C5_RoundTrip ==
    (/\ call.op = "remap"
     /\ call.ignoredCells \subseteq 0..(call.physicalCellCount - 1)
     /\ Len(call.logicalCells) = call.physicalCellCount - Cardinality(call.ignoredCells))
    =>
    LET P == call.physicalCellCount
        I == call.ignoredCells
        valid == NonIgnored(P, I)
    IN  /\ \A p \in valid :
               /\ physicalToLogicalIndex(p, I) = Some(Rank(p, I))
               /\ physicalToLogicalIndex(p, I).val + 1 \in DOMAIN call.logicalCells
               /\ call.result[p + 1] = call.logicalCells[physicalToLogicalIndex(p, I).val + 1]
        /\ {physicalToLogicalIndex(p, I) : p \in valid}
               = {Some(k) : k \in 0..(P - Cardinality(I) - 1)}
        /\ \A p, q \in valid :
               physicalToLogicalIndex(p, I) = physicalToLogicalIndex(q, I) => p = q

C5_Witness ==
    /\ call.op = "remap"
    /\ call.physicalCellCount = MaxCells
    /\ call.ignoredCells = {0}
    /\ call.logicalCells = <<1, 2>>
    /\ call.result = <<0, 1, 2>>

\* C6: for one row the hook returns one row and
\* max(0, cols - number of ignored positions in [0, cols)) columns.
C6_SingleRowCols ==
    (call.op = "filter" /\ call.displayDimensions.numRows = 1) =>
        LET P == call.displayDimensions.numCols
            inRange == {i \in call.ignoredCells : 0 <= i /\ i < P}
        IN  /\ call.result.numRows = 1
            /\ call.result.numCols = Max(0, P - Cardinality(inRange))
            /\ call.result.numCols >= 0

C6_Witness ==
    /\ call.op = "filter"
    /\ call.displayDimensions = DisplayDimensions(1, 2)
    /\ call.ignoredCells = {0, 1, 3}
    /\ call.result = DisplayDimensions(1, 0)

\* C7: for more than one row the hook returns the raw dimensions unchanged.
C7_MultiRowBypass ==
    (call.op = "filter" /\ call.displayDimensions.numRows > 1) =>
        call.result = call.displayDimensions

C7_Witness ==
    /\ call.op = "filter"
    /\ call.displayDimensions = DisplayDimensions(2, MaxCells)
    /\ call.ignoredCells = {0, 1}
    /\ call.result = DisplayDimensions(2, MaxCells)

\* C8: for zero rows the hook returns the raw dimensions unchanged, whatever
\* the ignored set.
C8_ZeroRowsUnchanged ==
    (call.op = "filter" /\ call.displayDimensions.numRows = 0) =>
        call.result = call.displayDimensions

\* The operations whose record holds a buffer write.
WriteOps == {"registerHandlers", "unregisterHandlers", "refreshIgnoredCells", "onSave",
             "writeCells"}

\* The write of the last operation went through patchedWriteCells and read
\* the snapshot.
LastWriteReadSnapshot ==
    /\ lastEvent.op \in WriteOps
    /\ lastEvent.write # None
    /\ lastEvent.write.val.hooked
    /\ lastEvent.write.val.usedIgnored # None

\* C9: registered and with a display, once refreshIgnoredCells has run after
\* the last change of the stored configuration, the snapshot is the set B
\* stored for the active display, and every buffer write and routing event
\* from that query on is remapped or translated with B.
C9_RefreshConsistency ==
    (isRegistered /\ display.present /\ ~staleConf) =>
        LET B == getIgnoredCellsForDisplay(display, conf)
        IN  /\ ignoredCells = B
            /\ LastWriteReadSnapshot => lastEvent.write.val.usedIgnored = Some(B)
            /\ (lastEvent.op = "routing" /\ lastEvent.translated) =>
                   lastEvent.usedIgnored = Some(B)

C9_Witness ==
    /\ isRegistered /\ display.present /\ ~staleConf
    /\ lastEvent.op = "onSave"
    /\ lastEvent.confChanged
    /\ lastEvent.snapshotBefore # {}
    /\ lastEvent.snapshotBefore # ignoredCells
    /\ LastWriteReadSnapshot
    /\ lastEvent.write.val.remapped
    /\ lastEvent.write.val.usedIgnored = Some(getIgnoredCellsForDisplay(display, conf))

\* C10: after any sequence of registerHandlers and unregisterHandlers calls
\* (repeated ones included) the dimension filter, the patched _writeCells, the
\* patched routingIndex and the patched routeTo are installed exactly when
\* _isRegistered is true, so the host has its own values whenever the manager
\* is unregistered, and no saved original is a patched wrapper.
C10_HooksMatchRegistration ==
    /\ filterRegistered = isRegistered
    /\ (hostWriteCells = "patched") = isRegistered
    /\ (hostRoutingIndex = Some("patched")) = isRegistered
    /\ (hostRouteTo = "patched") = isRegistered
    /\ originalWriteCells # Some("patched")
    /\ originalRoutingIndexProperty # Some("patched")
    /\ originalRouteTo # Some("patched")


\* The last operation wrote through patchedWriteCells and cells reached the
\* display.
LastWriteTransmitted ==
    /\ LastWriteReadSnapshot
    /\ lastEvent.write.val.transmitted # None

\* C11: registered, on a single-row display and with the dimensions queried,
\* the cached number of logical columns is the number of physical positions
\* 0..P-1 outside the snapshot; so a write of a buffer of the logical size
\* puts every logical cell, in order, on the non-ignored positions (none is
\* dropped, none of these positions is left unfilled), and every index a
\* routing event yields is below the number of logical columns.
C11_MutualConsistency ==
    (isRegistered /\ display.present /\ display.numRows = 1
     /\ displayDimensionsCache # None) =>
        LET P == display.numCells
            cols == displayDimensionsCache.val.numCols
        IN  /\ displayDimensionsCache.val.numRows = 1
            /\ cols = Cardinality(NonIgnored(P, ignoredCells))
            /\ (LastWriteTransmitted /\ Len(lastEvent.given) = cols) =>
                   LET sent == lastEvent.write.val.transmitted.val
                   IN  /\ Len(sent) = P
                       /\ \A p \in NonIgnored(P, ignoredCells) :
                              /\ Rank(p, ignoredCells) < Len(lastEvent.given)
                              /\ sent[p + 1] = lastEvent.given[Rank(p, ignoredCells) + 1]
                       /\ \A k \in 1..Len(lastEvent.given) :
                              \E p \in NonIgnored(P, ignoredCells) :
                                  Rank(p, ignoredCells) = k - 1
            /\ (lastEvent.op = "routing" /\ lastEvent.translated
                /\ lastEvent.index # None) =>
                   lastEvent.index.val < cols

C11_Witness ==
    /\ isRegistered /\ display.present /\ display.numRows = 1
    /\ displayDimensionsCache # None
    /\ ignoredCells \cap (0..(display.numCells - 1)) # {}
    /\ displayDimensionsCache.val.numCols > 0
    /\ LastWriteTransmitted
    /\ lastEvent.write.val.remapped
    /\ Len(lastEvent.given) = displayDimensionsCache.val.numCols


\* C12: a routing event at an ignored position (the routing-index hook yields
\* None) never reaches the host's original routeTo, which is never called
\* with a missing index; every concrete index reaches it exactly once,
\* unchanged.
C12_NoneNeverForwarded ==
    lastEvent.op = "routing" =>
        /\ lastEvent.index = None => lastEvent.originalRouteToCalls = <<>>
        /\ lastEvent.index # None => lastEvent.originalRouteToCalls = <<lastEvent.index>>
        /\ ~lastEvent.typeError

\* The last operation wrote through patchedWriteCells.
LastWriteHooked ==
    /\ lastEvent.op \in WriteOps
    /\ lastEvent.write # None
    /\ lastEvent.write.val.hooked

\* C13: every call of patchedWriteCells notifies pre_writeCells exactly once,
\* as its first step, with the caller's cells and the logical cell count
\* (rows * columns of the dimensions the host holds), also when there is no
\* display or a display of no cells and nothing is transmitted.
C13_PreWriteNotification ==
    LastWriteHooked =>
        LET w == lastEvent.write.val
            dims == lastEvent.dims.val
        IN  /\ w.notifications = <<[cells |-> lastEvent.given,
                                    currentCellCount |-> dims.numRows * dims.numCols]>>
            /\ w.steps[1] = "notify"
            /\ \A k \in 2..Len(w.steps) : w.steps[k] # "notify"
            /\ (~display.present \/ display.numCells = 0) =>
                   (w.transmitted = None /\ w.steps = <<"notify">>)

C13_Witness ==
    /\ LastWriteTransmitted
    /\ lastEvent.write.val.remapped
    /\ lastEvent.given # <<>>
    /\ lastEvent.write.val.notifications[1].currentCellCount < display.numCells
    /\ lastEvent.write.val.transmitted.val # lastEvent.given

\* C14: unregistered and with a display present, the dimensions the host
\* holds are the raw dimensions of the device, writes are not remapped and
\* routing indices are not translated.
C14_UnregisterReverts ==
    (~isRegistered /\ display.present) =>
        /\ displayDimensionsCache # None =>
               displayDimensionsCache.val = DisplayDimensions(display.numRows, display.numCols)
        /\ (lastEvent.op \in WriteOps /\ lastEvent.write # None) =>
               (~lastEvent.write.val.hooked /\ ~lastEvent.write.val.remapped)
        /\ lastEvent.op = "routing" =>
               (~lastEvent.translated /\ lastEvent.index = Some(lastEvent.rawIndex))


\* The last operation ran _filterDisplayDimensions (a dimension query with
\* the hook registered).
LastOpQueried ==
    /\ lastEvent.op \in WriteOps \cup {"displayDimensions"}
    /\ lastEvent.filterRuns > 0

\* C15: after every dimension query every position of the snapshot lies in
\* [0, physicalCellCount) of the active display.
C15_SnapshotInRange ==
    LastOpQueried =>
        \A i \in ignoredCells : 0 <= i /\ i < display.numCells

\* C15 as amended: after every dimension query every position of the
\* snapshot is >= 0; positions >= physicalCellCount stay in the snapshot, and
\* on a single-row display only the positions below physicalCellCount are
\* counted in the reduction of the columns.
C15_SnapshotNonNegativeCountInRange ==
    LastOpQueried =>
        /\ \A i \in ignoredCells : 0 <= i
        /\ display.numRows = 1 =>
               displayDimensionsCache.val.numCols =
                   display.numCols
                   - Cardinality(ignoredCells \cap (0..(display.numCells - 1)))

C15_Witness ==
    /\ LastOpQueried
    /\ display.numRows = 1
    /\ \E i \in ignoredCells : i >= display.numCells
    /\ \E i \in ignoredCells : i < display.numCells
    /\ displayDimensionsCache.val.numCols = display.numCols - 1


\* C16: on a display of more than one row no routing index is translated: a
\* routing event at physical position p yields p, also when the ignored set
\* of the display is not empty.
C16_MultiRowNoTranslation ==
    (lastEvent.op = "routing" /\ display.numRows > 1) =>
        lastEvent.index = Some(lastEvent.rawIndex)


\* C17: the snapshot _ignoredCells changes only in a step in which
\* _filterDisplayDimensions runs (a dimension query); the write hook, the
\* routing hooks, the patching and unpatching and refreshIgnoredCells, apart
\* from the query they make the host run, leave it as it is.
C17_SingleWriter ==
    [][ignoredCells' # ignoredCells =>
          /\ lastEvent'.op \in WriteOps \cup {"displayDimensions"}
          /\ lastEvent'.filterRuns > 0
          /\ lastEvent'.snapshotBefore = ignoredCells]_vars

C17_Witness ==
    /\ LastOpQueried
    /\ lastEvent.snapshotBefore # {}
    /\ ignoredCells # {}
    /\ lastEvent.snapshotBefore # ignoredCells


RefreshingOps == {"registerHandlers", "unregisterHandlers", "refreshIgnoredCells"}
RefreshCycle == <<"invalidate", "query", "update">>

\* C18: registerHandlers when unregistered, unregisterHandlers when
\* registered and refreshIgnoredCells in any state clear the cached
\* dimensions and force one dimension query followed by one display update;
\* registerHandlers when registered and unregisterHandlers when unregistered
\* force none.
C18_OneRefreshCycle ==
    lastEvent.op \in RefreshingOps =>
        IF lastEvent.returnedEarly
        THEN lastEvent.cycle = <<>> /\ lastEvent.write = None
        ELSE lastEvent.cycle = RefreshCycle /\ lastEvent.write # None

\* C18 as amended: the same with a display present; with no display the three
\* calls clear nothing and force no query and no update.
C18_OneRefreshCycleWithDisplay ==
    lastEvent.op \in RefreshingOps =>
        IF lastEvent.returnedEarly \/ ~display.present
        THEN lastEvent.cycle = <<>> /\ lastEvent.write = None
        ELSE lastEvent.cycle = RefreshCycle /\ lastEvent.write # None

C18_Witness ==
    /\ lastEvent.op = "refreshIgnoredCells"
    /\ display.present
    /\ isRegistered
    /\ lastEvent.cycle = RefreshCycle
    /\ lastEvent.filterRuns = 1
    /\ lastEvent.snapshotBefore # ignoredCells


\* C19: in patchedWriteCells with a display of P > 0 cells: with an empty
\* snapshot or dimensions of more than one row the cells are not remapped
\* and what is transmitted is the buffer normalized straight to the physical
\* shape; with a non-empty snapshot and one row the buffer is normalized to
\* the logical cell count and then remapped; P cells are transmitted.
C19_WriteHookBranches ==
    LastWriteTransmitted =>
        LET w == lastEvent.write.val
            dims == lastEvent.dims.val
            logicalCellCount == dims.numRows * dims.numCols
            I == w.usedIgnored.val
            P == display.numCells
        IN  /\ P > 0
            /\ Len(w.transmitted.val) = P
            /\ (I = {} \/ dims.numRows > 1) =>
                   /\ ~w.remapped
                   /\ w.steps = <<"notify", "normalize", "display">>
                   /\ w.transmitted.val =
                          normalizeCellArraySize(lastEvent.given, logicalCellCount,
                                                 dims.numRows, P, display.numRows)
            /\ (I # {} /\ dims.numRows = 1) =>
                   /\ w.remapped
                   /\ w.steps = <<"notify", "normalize", "remap", "display">>
                   /\ w.transmitted.val =
                          remapCellsToPhysical(
                              normalizeCellArraySize(lastEvent.given, logicalCellCount,
                                                     1, logicalCellCount, 1),
                              P, I)
                   /\ \A p \in I \cap (0..(P - 1)) : w.transmitted.val[p + 1] = 0

C19_Witness ==
    /\ LastWriteTransmitted
    /\ lastEvent.write.val.remapped
    /\ lastEvent.dims.val.numRows = 1
    /\ Len(lastEvent.given) > lastEvent.dims.val.numCols
    /\ lastEvent.dims.val.numCols < display.numCells
    /\ Len(lastEvent.write.val.transmitted.val) = display.numCells


\* C20: positions of the snapshot outside [0, P) change nothing: registered
\* and on a single-row display of P cells, the logical dimensions, the cells
\* transmitted by a write and the index of a routing event are those that
\* the snapshot restricted to [0, P) gives, also when the restriction is empty
\* and the write would not be remapped.
C20_OutOfRangeNoEffect ==
    (isRegistered /\ display.present /\ display.numRows = 1
     /\ displayDimensionsCache # None) =>
        LET P == display.numCells
            R == ignoredCells \cap (0..(P - 1))
            restrictedDims == adjustDimensions(DisplayDimensions(1, display.numCols), R)
        IN  /\ displayDimensionsCache.val = restrictedDims
            /\ LastWriteTransmitted =>
                   /\ lastEvent.write.val.usedIgnored = Some(ignoredCells)
                   /\ lastEvent.write.val.transmitted =
                          patchedWriteCells(lastEvent.given, restrictedDims, R).transmitted
            /\ (lastEvent.op = "routing" /\ lastEvent.translated) =>
                   /\ lastEvent.usedIgnored = Some(ignoredCells)
                   /\ lastEvent.index = physicalToLogicalIndex(lastEvent.rawIndex, R)

C20_Witness ==
    /\ isRegistered /\ display.present /\ display.numRows = 1
    /\ ignoredCells # {}
    /\ ignoredCells \cap (0..(display.numCells - 1)) = {}
    /\ LastWriteTransmitted
    /\ lastEvent.write.val.remapped
    /\ lastEvent.given # <<>>
    /\ displayDimensionsCache = Some(DisplayDimensions(1, display.numCols))


\* The stored 1-based list of the profile of the active display (empty when
\* there is none).
ActiveStoredList ==
    IF display.present /\ display.name # "noBraille"
       /\ <<display.name, display.numCells>> \in DOMAIN conf
    THEN conf[<<display.name, display.numCells>>]
    ELSE {}

\* C21: the snapshot a dimension query produces is {c - 1 : c stored in the
\* active profile, c >= 1}: each stored position c >= 1 enters as c - 1, the
\* stored values <= 0 are dropped, and no position of the snapshot is
\* negative.
C21_SnapshotZeroBased ==
    LastOpQueried =>
        /\ ignoredCells = {c - 1 : c \in {x \in ActiveStoredList : x >= 1}}
        /\ \A c \in ActiveStoredList : c <= 0 => (c - 1) \notin ignoredCells
        /\ \A i \in ignoredCells : i >= 0

C21_Witness ==
    /\ LastOpQueried
    /\ 0 \in ActiveStoredList
    /\ 1 \in ActiveStoredList
    /\ 2 \notin ActiveStoredList
    /\ ignoredCells = {0} \cup {c - 1 : c \in {x \in ActiveStoredList : x >= 3}}


\* A non-empty list is stored under exactly the name and the cell count of
\* the display.
MatchingProfile ==
    /\ display.present
    /\ display.name # "noBraille"
    /\ <<display.name, display.numCells>> \in DOMAIN conf
    /\ conf[<<display.name, display.numCells>>] # {}

\* C22: the positions of the snapshot come only from the profile stored
\* under exactly the name and the cell count of the display; a profile of the
\* same name and another cell count, or of another name, adds none.  With no
\* such profile, no display or the noBraille display the snapshot is empty,
\* the dimensions are the raw ones, writes are not remapped and routing
\* indices are the physical ones.
C22_ExactKeyOnly ==
    /\ LastOpQueried =>
           /\ \A i \in ignoredCells :
                  /\ MatchingProfile
                  /\ (i + 1) \in conf[<<display.name, display.numCells>>]
           /\ ~MatchingProfile =>
                  /\ ignoredCells = {}
                  /\ displayDimensionsCache =
                         Some(DisplayDimensions(display.numRows, display.numCols))
                  /\ LastWriteHooked => ~lastEvent.write.val.remapped
                  /\ LastWriteTransmitted =>
                         lastEvent.write.val.transmitted.val =
                             normalizeCellArraySize(
                                 lastEvent.given, display.numRows * display.numCols,
                                 display.numRows, display.numCells, display.numRows)
    /\ (lastEvent.op = "routing" /\ lastEvent.snapshotBefore = {}) =>
           lastEvent.index = Some(lastEvent.rawIndex)

C22_Witness ==
    /\ LastOpQueried
    /\ display = DevA
    /\ conf[profileKey(DevA.name, DevA.numCells)] = {}
    /\ conf[profileKey(DevAMulti.name, DevAMulti.numCells)] # {}
    /\ ignoredCells = {}
    /\ LastWriteTransmitted
    /\ lastEvent.given # <<>>
    /\ displayDimensionsCache = Some(DisplayDimensions(1, DevCells))

=============================================================================
